---- MODULE Spec2Model ----
(***************************************************************************)
(* Model of Notebooks/pdi-sampling-demo.ipynb: the module namespace of the *)
(* notebook, the cells that bind weib_M_n / weib_M_w / recovered_k /       *)
(* recovered_lambda, and the function recover_mass_dist with the density   *)
(* closures it returns.                                                    *)
(*                                                                         *)
(* Numbers.  Python floats are modelled by exact rationals <<n, d>> in     *)
(* lowest terms with d > 0, so rounding is not modelled.  The pair         *)
(* <<0, 0>> stands for Python's None.  Division by zero has the semantics  *)
(* of Python scalars (ZeroDivisionError) inside recover_mass_dist, and is  *)
(* a non-finite value when a returned density is applied (numpy            *)
(* arithmetic on the array the root finder returns).                       *)
(*                                                                         *)
(* Root finder.  scipy.optimize.root and scipy.special.gamma are library   *)
(* code.  The shape k ranges over the grid 1/1, 1/2, ..., 1/MaxInvShape,   *)
(* where gamma(1/k) and gamma(2/k) are factorials and the shape equation   *)
(* f1 is evaluated exactly as the notebook writes it.  The moments the     *)
(* cells bind and the callers pass have a polydispersity that is either    *)
(* on that grid or at most 1, where the shape equation has no root, so     *)
(* the walk reports failure only where the library would.                  *)
(*                                                                         *)
(* Data.  The cells integrate a sampled density; the sample is the input   *)
(* of the cell, and the moments are computed by the sums of the notebook.  *)
(***************************************************************************)
EXTENDS Integers, Sequences, FiniteSets, TLC

----------------------------------------------------------------------------
(* Bounds of the model.                                                    *)

\* shape grid of the root finder: k ranges over 1/1, 1/2, ..., 1/MaxInvShape
MaxInvShape == 2
\* largest number-average molar mass a caller supplies (the smallest is 0)
MaxMass == 1
\* densities are applied at the integers -MaxOffset .. MaxOffset
MaxOffset == 1

----------------------------------------------------------------------------
(* Exact rational arithmetic standing for float arithmetic.                *)

None == <<0, 0>>

Abs(i) == IF i < 0 THEN -i ELSE i

RECURSIVE Gcd(_, _)
Gcd(a, b) == IF b = 0 THEN a ELSE Gcd(b, a % b)

Q(n, d) ==
    LET g == Gcd(Abs(n), Abs(d))
        s == IF d < 0 THEN -1 ELSE 1
    IN  <<(s * n) \div g, (s * d) \div g>>

Num(i) == <<i, 1>>

IsNone(q) == q[2] = 0

RAdd(a, b) == Q(a[1] * b[2] + b[1] * a[2], a[2] * b[2])
RNeg(a) == <<-a[1], a[2]>>
RSub(a, b) == RAdd(a, RNeg(b))
RMul(a, b) == Q(a[1] * b[1], a[2] * b[2])
\* defined for b # 0 only; callers test the divisor first
RDiv(a, b) == Q(a[1] * b[2], a[2] * b[1])
RLt(a, b) == a[1] * b[2] < b[1] * a[2]
RLe(a, b) == a[1] * b[2] <= b[1] * a[2]
RIsZero(a) == a[1] = 0 /\ a[2] # 0
RAbs(a) == <<Abs(a[1]), a[2]>>

Zero == Num(0)
One == Num(1)

RECURSIVE RPowNat(_, _)
RPowNat(a, n) == IF n = 0 THEN One ELSE RMul(a, RPowNat(a, n - 1))

\* the rational r >= 0 with r^n = a, or None when a has no rational n-th root
NthRoot(a, n) ==
    LET roots == {r \in (0..a[1]) \X (1..a[2]) : RPowNat(Q(r[1], r[2]), n) = a}
    IN  IF roots = {} THEN None
        ELSE LET r == CHOOSE r \in roots : TRUE IN Q(r[1], r[2])

----------------------------------------------------------------------------
(* Moment relations (cells 9 and 13).                                      *)

RECURSIVE Factorial(_)
Factorial(n) == IF n <= 1 THEN 1 ELSE n * Factorial(n - 1)

\* scipy.special.gamma at the arguments the shape grid produces: the
\* positive integers, where gamma(z) = (z - 1)!
gamma(z) == Num(Factorial(z[1] - 1))

\* f1 / weibull_k_expression; raises ZeroDivisionError when Mn = 0
f1(x, Mn, Mw) ==
    RSub(RDiv(RMul(RMul(Num(2), x), gamma(RDiv(Num(2), x))),
              RPowNat(gamma(RDiv(One, x)), 2)),
         RDiv(Mw, Mn))

\* f2 / weibull_lambda_expression
f2(Mn, k) == RDiv(RMul(Mn, k), gamma(RDiv(One, k)))

\* The iteration of scipy.optimize.root(f1, args=(Mn, Mw), x0=1.) on the
\* shape grid k = 1/n.  f1 decreases in k, so from the iterate 1/n the walk
\* moves to 1/(n+1) while the residual is negative; it stops with
\* success = True on a zero residual, and with success = False, holding the
\* last iterate, when no smaller shape is left or the residual is positive.
RECURSIVE rootWalk(_, _, _)
rootWalk(Mn, Mw, n) ==
    LET x == Q(1, n)
        res == f1(x, Mn, Mw)
    IN  IF RIsZero(res) THEN [x |-> x, success |-> TRUE]
        ELSE IF RLt(res, Zero) /\ n < MaxInvShape THEN rootWalk(Mn, Mw, n + 1)
        ELSE [x |-> x, success |-> FALSE]

root(Mn, Mw) == rootWalk(Mn, Mw, 1)

----------------------------------------------------------------------------
(* recover_mass_dist (cell 13).                                            *)

\* str.lower() on the selectors the model passes
lower(s) ==
    IF s = "Gaussian" THEN "gaussian" ELSE s

\* the second != written as ==
UnknownDistribution_eq(distribution) ==
    lower(distribution) # "gaussian" /\ lower(distribution) = "weibull"

\* the condition of the if that raises ValueError
UnknownDistribution(distribution) ==
    lower(distribution) # "gaussian" /\ lower(distribution) # "weibull"

pdi_arg_sum(pdi, Mn, Mw) ==
    (IF IsNone(pdi) THEN 0 ELSE 1) + (IF IsNone(Mn) THEN 0 ELSE 1)
      + (IF IsNone(Mw) THEN 0 ELSE 1)

\* the bound of the first assert off by one
EnoughArgs_one(n) == n >= 1

\* the condition of the first assert
EnoughArgs(n) == n >= 2

Tolerance == Q(1, 100000)

\* the condition of the second assert (all three given, Mn # 0)
PdiMatches(Mn, Mw, pdi) == RLt(RSub(pdi, RDiv(Mw, Mn)), Tolerance)

\* the first assignment multiplying where it should divide
Complete_times(Mn, Mw, pdi) ==
    LET Mn1 == IF IsNone(Mn) THEN RMul(Mw, pdi) ELSE Mn
        Mw1 == IF IsNone(Mw) THEN RMul(pdi, Mn1) ELSE Mw
        err2 == IsNone(pdi) /\ RIsZero(Mn1)
        pdi1 == IF IsNone(pdi) /\ ~err2 THEN RDiv(Mw1, Mn1) ELSE pdi
    IN  [zerodiv |-> err2, Mn |-> Mn1, Mw |-> Mw1, pdi |-> pdi1]

\* The else branch that recovers the missing one of Mn, Mw, pdi: three ifs
\* in sequence, each reading the values the earlier ones assigned.  zerodiv
\* is TRUE when one of the two divisions has a zero divisor; the locals
\* then keep the values they had when the exception was raised.
Complete(Mn, Mw, pdi) ==
    LET err1 == IsNone(Mn) /\ RIsZero(pdi)
        Mn1 == IF IsNone(Mn) /\ ~err1 THEN RDiv(Mw, pdi) ELSE Mn
        Mw1 == IF IsNone(Mw) /\ ~err1 THEN RMul(pdi, Mn1) ELSE Mw
        err2 == ~err1 /\ IsNone(pdi) /\ RIsZero(Mn1)
        pdi1 == IF IsNone(pdi) /\ ~err1 /\ ~err2 THEN RDiv(Mw1, Mn1) ELSE pdi
    IN  [zerodiv |-> err1 \/ err2, Mn |-> Mn1, Mw |-> Mw1, pdi |-> pdi1]

\* sigma without the parentheses
gauss_sigma_flat(Mn, Mw) == RSub(RMul(Mn, Mw), Mn)

\* sigma of the Gaussian branch
gauss_sigma(Mn, Mw) == RMul(Mn, RSub(Mw, Mn))

\* What a call leaves behind: the outcome (an exception or the returned
\* closure with the variables it captures), and the locals Mn, Mw, pdi at
\* the end of the call.  success is the flag of the OptimizeResult a, which
\* the function never reads.
Outcome(kind, msg, l) ==
    [kind |-> kind, msg |-> msg, Mn |-> l.Mn, Mw |-> l.Mw, pdi |-> l.pdi,
     family |-> "", sigma |-> None, recovered_k |-> None,
     recovered_lambda |-> None, success |-> TRUE]

Dispatch(l, distribution, ns) ==
    IF lower(distribution) = "gaussian"
    THEN [Outcome("density", "", l) EXCEPT
            !.family = "gaussian", !.sigma = gauss_sigma(l.Mn, l.Mw)]
    ELSE IF lower(distribution) = "weibull"
    THEN LET a == root(ns.weib_M_n, ns.weib_M_w)
         IN  [Outcome("density", "", l) EXCEPT
                !.family = "weibull", !.recovered_k = a.x,
                !.recovered_lambda = f2(l.Mn, a.x), !.success = a.success]
    ELSE Outcome("None", "", l)

recover_mass_dist(Mn, Mw, pdi, distribution, ns) ==
    LET given == [Mn |-> Mn, Mw |-> Mw, pdi |-> pdi]
    IN  IF UnknownDistribution(distribution)
        THEN Outcome("ValueError", "Distribution must be either", given)
        ELSE IF ~EnoughArgs(pdi_arg_sum(pdi, Mn, Mw))
        THEN Outcome("AssertionError", "At least two", given)
        ELSE IF pdi_arg_sum(pdi, Mn, Mw) = 3
        THEN IF RIsZero(Mn)
             THEN Outcome("ZeroDivisionError", "", given)
             ELSE IF ~PdiMatches(Mn, Mw, pdi)
             THEN Outcome("AssertionError", "PDI value does not match", given)
             ELSE Dispatch(given, distribution, ns)
        ELSE LET c == Complete(Mn, Mw, pdi)
                 l == [Mn |-> c.Mn, Mw |-> c.Mw, pdi |-> c.pdi]
             IN  IF c.zerodiv THEN Outcome("ZeroDivisionError", "", l)
                 ELSE Dispatch(l, distribution, ns)

\* a global statement for the two names the Weibull branch assigns
global_names_declared == {"recovered_k", "recovered_lambda"}

\* the names recover_mass_dist declares global: it has no global statement
global_names == {}

\* The module namespace after a call that ends with outcome out: an
\* assignment in the function body binds a module-level name only if the
\* name is declared global; recovered_k and recovered_lambda are assigned
\* on the Weibull branch.
namespace_after_call(n, out) ==
    [v \in DOMAIN n |->
        IF v \in global_names /\ out.family = "weibull" THEN out[v] ELSE n[v]]

----------------------------------------------------------------------------
(* The closures recover_mass_dist returns, applied to a point x.           *)
(* A value is coef * e^exp with rational coef and exp (kind "real"), a     *)
(* real of sign coef that is not of that form (kind "inexact"), or not a   *)
(* finite real: nan, inf or a ZeroDivisionError (kind "nonfinite").        *)

Real(coef, exp) == [kind |-> "real", coef |-> coef, exp |-> exp]
Inexact(sign) == [kind |-> "inexact", coef |-> sign, exp |-> None]
NonFinite == [kind |-> "nonfinite", coef |-> None, exp |-> None]

Sign(a) == IF a[1] < 0 THEN Num(-1) ELSE IF a[1] = 0 THEN Zero ELSE One

\* lambda x: np.exp(-(x-Mn)**2 / (2. * sigma))
gauss_density(x, Mn, sigma) ==
    IF RIsZero(sigma) THEN NonFinite
    ELSE Real(One, RDiv(RNeg(RPowNat(RSub(x, Mn), 2)), RMul(Num(2), sigma)))

\* lambda x: recovered_k / recovered_lambda
\*             * (x / recovered_lambda) ** (recovered_k - 1)
\*             * np.exp(- (x / recovered_lambda) ** recovered_k)
\* for recovered_k = 1/n.  A negative base under a fractional exponent is
\* nan and 0 under a negative exponent is inf, as numpy computes them.
weibull_density(x, recovered_k, recovered_lambda) ==
    IF RIsZero(recovered_lambda) THEN NonFinite
    ELSE LET n == recovered_k[2]
             c == RDiv(recovered_k, recovered_lambda)
             b == RDiv(x, recovered_lambda)
         IN  IF n = 1 THEN Real(c, RNeg(b))
             ELSE IF RLe(b, Zero) THEN NonFinite
             ELSE LET r == NthRoot(b, n)
                  IN  IF IsNone(r) THEN Inexact(Sign(c))
                      ELSE Real(RDiv(c, RPowNat(r, n - 1)), RNeg(r))

Apply(f, x) ==
    IF f.family = "gaussian" THEN gauss_density(x, f.Mn, f.sigma)
    ELSE weibull_density(x, f.recovered_k, f.recovered_lambda)

----------------------------------------------------------------------------
(* The notebook: its module namespace and the cells that run.              *)

VARIABLES
    ns,      \* module-level weib_M_n, weib_M_w, recovered_k, recovered_lambda
    call,    \* the last call of recover_mass_dist: arguments and outcome
    ev       \* the last application of the returned closure

vars == <<ns, call, ev>>

\* central binomial coefficient: the polydispersity of a Weibull
\* distribution of shape 1/n, which is where f1 has its root
ShapePdi(n) == Factorial(2 * n) \div (Factorial(n) * Factorial(n))

GridPdi == {ShapePdi(n) : n \in 1..MaxInvShape}

\* Sampled densities a cell integrates: y = (c, 1) on the grid x = (0, 1).
\* Their polydispersity is c + 1: on the shape grid, or 1 for a single
\* non-zero sample.
Samples ==
    {[x |-> <<0, 1>>, y |-> <<c, 1>>] : c \in {0} \cup {p - 1 : p \in GridPdi}}

RECURSIVE SumSeq(_)
SumSeq(q) == IF q = <<>> THEN 0 ELSE Head(q) + SumSeq(Tail(q))

\* np.sum(x*y) / np.sum(y)
number_average(d) ==
    Q(SumSeq([i \in 1..Len(d.x) |-> d.x[i] * d.y[i]]), SumSeq(d.y))

\* np.sum(x**2 * y) / np.sum(x*y)
weight_average(d) ==
    Q(SumSeq([i \in 1..Len(d.x) |-> d.x[i] * d.x[i] * d.y[i]]),
      SumSeq([i \in 1..Len(d.x) |-> d.x[i] * d.y[i]]))

\* the lines that bind weib_M_n and weib_M_w in cells 7, 11 and 15
bind_moments(n, d) ==
    [n EXCEPT !.weib_M_n = number_average(d), !.weib_M_w = weight_average(d)]

\* the lines of cell 9 that solve the shape and the scale of the sample
solve_sample(n) ==
    LET a == root(n.weib_M_n, n.weib_M_w)
    IN  [n EXCEPT !.recovered_k = a.x,
                  !.recovered_lambda = f2(n.weib_M_n, a.x)]

NoCall ==
    [distribution |-> "", given |-> [Mn |-> None, Mw |-> None, pdi |-> None],
     out |-> Outcome("", "", [Mn |-> None, Mw |-> None, pdi |-> None])]

NoEval == [x |-> None, value |-> NonFinite, done |-> FALSE]

\* the namespace once the cells up to the definition of recover_mass_dist
\* have run on a sample
Init ==
    /\ \E d \in Samples :
         ns = solve_sample(bind_moments(
                [weib_M_n |-> None, weib_M_w |-> None,
                 recovered_k |-> None, recovered_lambda |-> None], d))
    /\ call = NoCall
    /\ ev = NoEval

\* cells 7 and 11: bind the moments of the sample
Cell7(d) ==
    /\ ns' = bind_moments(ns, d)
    /\ UNCHANGED <<call, ev>>

\* cell 9: solve the sample's shape and scale into the module namespace
Cell9 ==
    /\ ns' = solve_sample(ns)
    /\ UNCHANGED <<call, ev>>

\* values a caller passes for Mn, Mw and pdi
Masses == {Num(m) : m \in 0..MaxMass}
Ratios == {Q(1, 2), One, Num(2)}
Pdis == {Zero, One, Num(2)}
Distributions == {"Gaussian", "weibull", "lognormal"}

Arguments ==
    {[Mn |-> IF 1 \in mask THEN m ELSE None,
      Mw |-> IF 2 \in mask THEN RMul(r, m) ELSE None,
      pdi |-> IF 3 \in mask THEN p ELSE None] :
        m \in Masses, r \in Ratios, p \in Pdis,
        mask \in SUBSET {1, 2, 3}}

\* a call recover_mass_dist(Mn, Mw, pdi, distribution)
Recover(g, distribution) ==
    LET out == recover_mass_dist(g.Mn, g.Mw, g.pdi, distribution, ns)
    IN  /\ call' = [distribution |-> distribution, given |-> g, out |-> out]
        /\ ns' = namespace_after_call(ns, out)
        /\ ev' = NoEval

\* cell 15: recover the sample's own distribution, then bind the moments
Cell15(d) ==
    LET g == [Mn |-> ns.weib_M_n, Mw |-> ns.weib_M_w, pdi |-> None]
        out == recover_mass_dist(g.Mn, g.Mw, g.pdi, "weibull", ns)
    IN  /\ call' = [distribution |-> "weibull", given |-> g, out |-> out]
        /\ ns' = bind_moments(namespace_after_call(ns, out), d)
        /\ ev' = NoEval

\* the caller applies the returned closure to a point
Evaluate(x) ==
    /\ call.out.kind = "density"
    /\ ev' = [x |-> x, value |-> Apply(call.out, x), done |-> TRUE]
    /\ UNCHANGED <<ns, call>>

Points == {Num(i) : i \in -MaxOffset..MaxOffset}

Next ==
    \/ \E d \in Samples : Cell7(d)
    \/ Cell9
    \/ \E g \in Arguments, distribution \in Distributions :
         Recover(g, distribution)
    \/ \E d \in Samples : Cell15(d)
    \/ \E x \in Points : Evaluate(x)

Spec == Init /\ [][Next]_vars

----------------------------------------------------------------------------
(* Properties.                                                             *)

Called == call.out.kind # ""
Given == call.given
Out == call.out
Supplied == Cardinality({f \in {"Mn", "Mw", "pdi"} : ~IsNone(Given[f])})
Recognised == call.distribution \in {"Gaussian", "gaussian", "weibull"}
IsGaussian == call.distribution \in {"Gaussian", "gaussian"}
IsWeibull == call.distribution = "weibull"

\* |pdi - Mw/Mn| < 1e-5 for the three supplied values (Mn # 0)
Consistent ==
    RLt(RAbs(RSub(Given.pdi, RDiv(Given.Mw, Given.Mn))), Q(1, 100000))

\* the moments the call ended with are a valid input: Mw > Mn > 0
ValidMoments ==
    /\ ~IsNone(Out.Mn) /\ ~IsNone(Out.Mw)
    /\ RLt(Zero, Out.Mn) /\ RLt(Out.Mn, Out.Mw)

\* a value of a density is zero / is a non-negative real
IsZeroValue(v) == v.kind = "real" /\ RIsZero(v.coef)
IsNonNegative(v) == v.kind \in {"real", "inexact"} /\ RLe(Zero, v.coef)

\* C1: two calls of recover with equal (Mn, Mw, pdi, family) (here: with
\* valid moments Mw > Mn > 0) return the same k, lambda and density,
\* whatever the module-level weib_M_n and weib_M_w hold and whatever cells
\* ran between the calls.
C1_SameArgumentsSameResult ==
    [][(Called /\ ValidMoments /\ call'.given = call.given
              /\ call'.distribution = call.distribution)
         => /\ call'.out.kind = call.out.kind
            /\ call'.out.recovered_k = call.out.recovered_k
            /\ call'.out.recovered_lambda = call.out.recovered_lambda
            /\ call'.out.sigma = call.out.sigma]_vars

\* C2: with all three of Mn, Mw, pdi supplied (here: positive values),
\* recover fails with the PDI-mismatch assertion exactly when
\* |pdi - Mw/Mn| >= 1e-5, in both directions of the deviation.
C2_InconsistentMomentsBothWays ==
    (Called /\ Recognised /\ Supplied = 3 /\ RLt(Zero, Given.Mn)
       /\ RLt(Zero, Given.Mw) /\ RLt(Zero, Given.pdi))
      => ((Out.kind = "AssertionError" /\ Out.msg = "PDI value does not match")
            <=> ~Consistent)

\* C3: for both families, when the completed moments satisfy Mw <= Mn or
\* Mn <= 0, recover fails with DomainError and returns no density.
C3_DomainError ==
    (Called /\ Recognised /\ Out.kind \notin {"AssertionError", "ValueError"}
       /\ ~IsNone(Out.Mn) /\ ~IsNone(Out.Mw)
       /\ (RLe(Out.Mw, Out.Mn) \/ RLe(Out.Mn, Zero)))
      => Out.kind = "DomainError"

\* C4: on the Weibull path (here: for valid moments Mw > Mn > 0) recover
\* never returns a density built from the iterate of a root-finder run that
\* did not converge; such a run surfaces as ConvergenceError.
C4_ConvergenceError ==
    (Called /\ Out.family = "weibull" /\ ValidMoments /\ ~Out.success)
      => Out.kind = "ConvergenceError"

\* C5 as stated: with exactly two of Mn, Mw, pdi supplied, recover computes
\* the missing one, exactly one of the three locals changes, the supplied
\* two are unchanged, and afterwards pdi = Mw/Mn.
C5_CompletesTheTriple ==
    (Called /\ Recognised /\ Supplied = 2)
      => /\ \A f \in {"Mn", "Mw", "pdi"} :
              /\ ~IsNone(Out[f])
              /\ ~IsNone(Given[f]) => Out[f] = Given[f]
         /\ ~RIsZero(Out.Mn)
         /\ Out.pdi = RDiv(Out.Mw, Out.Mn)

\* no division of the completion has a zero divisor: the supplied Mn is
\* non-zero, or Mn is missing and the supplied Mw and pdi are non-zero
NonZeroDivisors ==
    IF IsNone(Given.Mn) THEN ~RIsZero(Given.pdi) /\ ~RIsZero(Given.Mw)
    ELSE ~RIsZero(Given.Mn)

\* C5 amended: with exactly two of Mn, Mw, pdi supplied and no zero divisor
\* (Mn non-zero, or Mn missing and Mw, pdi non-zero), recover computes the
\* missing one as Mn = Mw/pdi, Mw = pdi*Mn or pdi = Mw/Mn, exactly one of
\* the three locals changes, the supplied two are unchanged, and afterwards
\* pdi = Mw/Mn.
C5_CompletesTheTripleNonZero ==
    (Called /\ Recognised /\ Supplied = 2 /\ NonZeroDivisors)
      => /\ Out.kind = "density"
         /\ \A f \in {"Mn", "Mw", "pdi"} :
              /\ ~IsNone(Out[f])
              /\ ~IsNone(Given[f]) => Out[f] = Given[f]
         /\ Cardinality({f \in {"Mn", "Mw", "pdi"} : Out[f] # Given[f]}) = 1
         /\ IsNone(Given.Mn) => Out.Mn = RDiv(Given.Mw, Given.pdi)
         /\ IsNone(Given.Mw) => Out.Mw = RMul(Given.pdi, Given.Mn)
         /\ IsNone(Given.pdi) => Out.pdi = RDiv(Given.Mw, Given.Mn)
         /\ ~RIsZero(Out.Mn)
         /\ Out.pdi = RDiv(Out.Mw, Out.Mn)

\* a call that derived Mn from non-zero Mw and pdi and returned a density
C5_Witness ==
    /\ Called /\ Recognised /\ Supplied = 2 /\ NonZeroDivisors
    /\ IsNone(Given.Mn)
    /\ Out.kind = "density" /\ ValidMoments
    /\ Out.Mn = RDiv(Given.Mw, Given.pdi)

\* the moments the completion step is to produce from the supplied values
ExpectedMn == IF IsNone(Given.Mn) THEN RDiv(Given.Mw, Given.pdi) ELSE Given.Mn
ExpectedMw == IF IsNone(Given.Mw) THEN RMul(Given.pdi, Given.Mn) ELSE Given.Mw

\* the call passes the moment checks and its moments satisfy Mw > Mn > 0
GaussianCase ==
    /\ Called /\ IsGaussian /\ Supplied >= 2
    /\ IsNone(Given.Mn) => ~RIsZero(Given.pdi)
    /\ RLt(Zero, ExpectedMn) /\ RLt(ExpectedMn, ExpectedMw)
    /\ Supplied = 3 => Consistent

\* C6: for Mw > Mn > 0, supplied or derived from pdi, Gaussian recovery
\* returns the density x -> exp(-(x-mu)^2/(2*sigma)) with mu = Mn and
\* sigma = Mn*(Mw-Mn); the density is 1 at x = Mn and symmetric about Mn.
C6_GaussianClosedForm ==
    GaussianCase
      => /\ Out.kind = "density" /\ Out.family = "gaussian"
         /\ Out.Mn = ExpectedMn
         /\ Out.sigma = RMul(ExpectedMn, RSub(ExpectedMw, ExpectedMn))
         /\ Apply(Out, ExpectedMn) = Real(One, Zero)
         /\ \A d \in 1..MaxOffset :
              LET lo == Apply(Out, RSub(ExpectedMn, Num(d)))
                  hi == Apply(Out, RAdd(ExpectedMn, Num(d)))
              IN  /\ lo = hi
                  /\ hi = Real(One,
                             RDiv(Num(-(d * d)),
                                  RMul(Num(2), RMul(ExpectedMn,
                                         RSub(ExpectedMw, ExpectedMn)))))

\* a Gaussian density whose Mn was derived from pdi, applied at x = Mn
C6_Witness ==
    /\ GaussianCase /\ IsNone(Given.Mn)
    /\ ev.done /\ ev.x = Out.Mn
    /\ ev.value = Real(One, Zero)

\* C7: the density recover returns for the Weibull family (here: for valid
\* moments Mw > Mn > 0 and a converged root finder) is exactly 0 at every
\* x < 0 and non-negative at every x.
C7_WeibullZeroBelowZero ==
    (ev.done /\ Out.kind = "density" /\ Out.family = "weibull"
       /\ ValidMoments /\ Out.success)
      => /\ RLt(ev.x, Zero) => IsZeroValue(ev.value)
         /\ IsNonNegative(ev.value)

\* C8: with fewer than two of Mn, Mw, pdi supplied, for either recognised
\* family, recover fails with the 'At least two' assertion and returns no
\* density.
C8_InsufficientData ==
    (Called /\ Recognised /\ Supplied < 2)
      => /\ Out.kind = "AssertionError"
         /\ Out.msg = "At least two"

\* a call with only pdi supplied that failed with the assertion
C8_Witness ==
    /\ Called /\ Recognised /\ Supplied = 1 /\ ~IsNone(Given.pdi)
    /\ Out.kind = "AssertionError"

\* C9: with an unrecognised family selector recover fails with ValueError
\* for every combination of supplied and missing Mn, Mw, pdi; the family
\* check comes before the moment-count, consistency and domain checks.
C9_InvalidArgument ==
    (Called /\ ~Recognised) => Out.kind = "ValueError"

\* an unrecognised family with no moment supplied is still a ValueError
C9_Witness ==
    /\ Called /\ ~Recognised /\ Supplied = 0
    /\ Out.kind = "ValueError"

\* C10: a call of recover, whether it succeeds or fails, leaves every
\* module-level variable unchanged: a step that makes a call changes the
\* namespace only in cell 15, and there only by the cell's own binding of
\* weib_M_n and weib_M_w after the call.
C10_CallLeavesNamespace ==
    [][call' # call
         => \/ ns' = ns
            \/ /\ call'.given =
                    [Mn |-> ns.weib_M_n, Mw |-> ns.weib_M_w, pdi |-> None]
               /\ \E d \in Samples : ns' = bind_moments(ns, d)]_vars

\* a Weibull call returned a shape that differs from the module-level
\* recovered_k, which kept its value
C10_Witness ==
    /\ Called /\ Out.kind = "density" /\ Out.family = "weibull"
    /\ ValidMoments /\ Out.success
    /\ Out.recovered_k # ns.recovered_k

====
